---- MODULE Spec2Model ----
(***************************************************************************)
(* A model of the AIDL record store of vibe_coding_enhanced:               *)
(*   src/src/file-utils.js   FileUtils  (atomic write, locked update)      *)
(*   src/unnamed/part_001    AidlManager (create, get, updateStatus,       *)
(*                           supersede, update)                            *)
(*   src/unnamed/part_002    the MCP adapter (handleError, tool schemas)   *)
(*                                                                         *)
(* Every `await` of a filesystem or lock operation is one step of a        *)
(* caller: the step performs the operation and the synchronous code that   *)
(* follows it up to the next await.  Steps that touch nothing another      *)
(* caller can see are merged with a neighbour: ensureDir (mkdir -p is      *)
(* idempotent and nothing reads the directory) is merged into the step     *)
(* before it, and the second exists() of updateJsonFileAtomic (line 214)   *)
(* is merged with the read that follows it, since no operation of the      *)
(* program ever removes a file.                                            *)
(*                                                                         *)
(* AidlManager calls updateJsonFileAtomic only after initialize, on an     *)
(* index that exists.  FileUtils.updateJsonFileAtomic called directly, on  *)
(* a path that may not exist, is the operation "lockedUpdate" of SpecLocked.*)
(***************************************************************************)
EXTENDS Integers, Sequences, FiniteSets, TLC

VARIABLES
  dirExists,  \* the aidl directory exists
  idx,        \* content of <aidlDir>/index.json
  docs,       \* content of <aidlDir>/<id>.md, per id
  lock,       \* proper-lockfile: holder of the lock of each path (0 = free)
  tmp,        \* callers whose temporary file <path>.tmp.* exists
  call,       \* per caller: the running call, its position and its locals
              \* (mutated is history: the call has replaced the index by a
              \* locked update)
  issued,     \* history: adr_no returned by the successful creates, in completion order
  ncalls,     \* history: number of calls started
  pre,        \* history: the index and the documents when the latest call started,
              \* and the outcome of the call before it where that was a get
  callers     \* the callers that may issue calls

vars == <<dirExists, idx, docs, lock, tmp, call, issued, ncalls, pre, callers>>

(***************************************************************************)
(* Bounds and input sets                                                   *)
(***************************************************************************)
\* calls started in a run: by concurrent callers, by a single caller
MaxCalls == 3
MaxSeqCalls == 5
\* records in a store that is listed, and the pages asked for
MaxItems == 5
MaxPage == 3

AllCallers == {1, 2}
Ids == {"a", "b"}
Paths == {"index"} \cup Ids
CreateTitles == {"t1"}
StatusInputs == {"PROPOSED", "ACCEPTED", "FINISHED", "SUPERSEDED"}
Dates == {1}

(***************************************************************************)
(* JavaScript values that a sequence number can take besides an integer.   *)
(***************************************************************************)
JsUndefined == -1
JsNull == -2
JsNaN == -3

IsInteger(x) == x >= 0

\* x + 1 in JavaScript: undefined + 1 = NaN, null + 1 = 1
JsPlusOne(x) ==
  IF x = JsNull THEN 1
  ELSE IF x = JsUndefined \/ x = JsNaN THEN JsNaN
  ELSE x + 1

\* JSON.stringify then JSON.parse of a number-valued property: NaN is
\* written as null; an undefined property is omitted and reads as undefined
JsonNumber(x) == IF x = JsNaN THEN JsNull ELSE x

\* superseded_by: '' (line 141) is 0, otherwise adr_no.toString()
NoRef == 0

(***************************************************************************)
(* File contents                                                           *)
(***************************************************************************)
EmptyItems == [i \in {} |-> 0]

\* index.json: absent, zero bytes (''), '{}', or {next_adr_seq, items}
NoIndexFile == [kind |-> "absent", next |-> JsUndefined, items |-> EmptyItems]
EmptyIndexFile == [kind |-> "empty", next |-> JsUndefined, items |-> EmptyItems]
EmptyObject == [kind |-> "object", next |-> JsUndefined, items |-> EmptyItems]
initialIndex == [kind |-> "json", next |-> 1, items |-> EmptyItems]

NoDisplay == [s |-> "", by |-> NoRef]

\* <id>.md: absent, zero bytes (''), or front matter {id, aidl_no, status}
\* and a body with the heading (aidl_no, title), the status line (display)
\* and the sections.  Of the sections, Context stands for the free text
\* ones (Decision and Rationale are written and read by the same code),
\* Assumptions for the bullet lists (as Acceptance Criteria); Consequences
\* and Cost / TCO are the two with sub-headings.
EmptyConsequences == [positive |-> <<>>, negative |-> <<>>]
EmptyCost == [one_off |-> <<>>, ongoing |-> <<>>]

NoDocFile ==
  [kind |-> "absent", id |-> "", aidl_no |-> JsUndefined, status |-> "",
   display |-> NoDisplay, title |-> "", context |-> "", assumptions |-> <<>>,
   consequences |-> EmptyConsequences, cost |-> EmptyCost]
EmptyDocFile == [NoDocFile EXCEPT !.kind = "empty"]

Exists(file) == file.kind # "absent"

(***************************************************************************)
(* The callbacks handed to updateJsonFileAtomic.  Each returns the error   *)
(* it throws ("" if none) and the object it returns.                       *)
(***************************************************************************)
Thrown(e, cur) == [err |-> e, data |-> cur]
Returned(d) == [err |-> "", data |-> d]

\* the create callback leaving next_adr_seq as it found it
CreateCallbackNoIncrement(currentIndex, id, title, date) ==
  LET adrNo == currentIndex.next
      newItem == [title |-> title, id |-> id, adr_no |-> adrNo,
                  status |-> "PROPOSED", date |-> date, superseded_by |-> NoRef]
  IN Returned([kind |-> "json", next |-> adrNo,
               items |-> (id :> newItem) @@ currentIndex.items])

\* create, lines 132-151.  { ...currentIndex.items, [id]: newItem } of an
\* object without items is {[id]: newItem}.
CreateCallback(currentIndex, id, title, date) ==
  LET adrNo == currentIndex.next
      newItem == [title |-> title, id |-> id, adr_no |-> adrNo,
                  status |-> "PROPOSED", date |-> date, superseded_by |-> NoRef]
  IN Returned([kind |-> "json", next |-> JsPlusOne(adrNo),
               items |-> (id :> newItem) @@ currentIndex.items])

validStatuses == {"PROPOSED", "ACCEPTED", "REJECTED", "FINISHED", "FAILED"}

\* the updateStatus callback refusing to leave FINISHED or FAILED
UpdateStatusCallbackFinal(currentIndex, id, newStatus) ==
  IF currentIndex.kind # "json" THEN Thrown("TypeError", currentIndex)
  ELSE IF id \notin DOMAIN currentIndex.items THEN Thrown("E_NOT_FOUND", currentIndex)
  ELSE IF currentIndex.items[id].status \in {"SUPERSEDED", "FINISHED", "FAILED"}
    THEN Thrown("E_CONFLICT", currentIndex)
  ELSE Returned([currentIndex EXCEPT !.items[id].status = newStatus])

\* updateStatus, lines 408-427.  currentIndex.items[id] of an object
\* without items is a TypeError, an error without a code.
UpdateStatusCallback(currentIndex, id, newStatus) ==
  IF currentIndex.kind # "json" THEN Thrown("TypeError", currentIndex)
  ELSE IF id \notin DOMAIN currentIndex.items THEN Thrown("E_NOT_FOUND", currentIndex)
  ELSE IF currentIndex.items[id].status = "SUPERSEDED" THEN Thrown("E_CONFLICT", currentIndex)
  ELSE Returned([currentIndex EXCEPT !.items[id].status = newStatus])

\* the supersede callback recording the record's own number
SupersedeCallbackOwnNumber(currentIndex, id, supersededByAdrNo) ==
  IF currentIndex.kind # "json" \/ id \notin DOMAIN currentIndex.items
    THEN Thrown("TypeError", currentIndex)
  ELSE IF ~IsInteger(supersededByAdrNo) THEN Thrown("TypeError", currentIndex)
  ELSE Returned([currentIndex EXCEPT
                   !.items[id].status = "SUPERSEDED",
                   !.items[id].superseded_by = currentIndex.items[id].adr_no])

\* supersede, lines 500-504.  supersededByAdrNo.toString() of undefined or
\* null is a TypeError.
SupersedeCallback(currentIndex, id, supersededByAdrNo) ==
  IF currentIndex.kind # "json" \/ id \notin DOMAIN currentIndex.items
    THEN Thrown("TypeError", currentIndex)
  ELSE IF ~IsInteger(supersededByAdrNo) THEN Thrown("TypeError", currentIndex)
  ELSE Returned([currentIndex EXCEPT
                   !.items[id].status = "SUPERSEDED",
                   !.items[id].superseded_by = supersededByAdrNo])

\* update, lines 573-576
UpdateTitleCallback(currentIndex, id, title) ==
  IF currentIndex.kind # "json" \/ id \notin DOMAIN currentIndex.items
    THEN Thrown("TypeError", currentIndex)
  ELSE Returned([currentIndex EXCEPT !.items[id].title = title])

\* JSON.stringify(updatedData) as read back by JSON.parse
Stringify(data) == [data EXCEPT !.next = JsonNumber(@)]

\* updateJsonFileAtomic lines 213-225: the object the callback is given
CurrentData(file) ==
  IF file.kind \in {"absent", "empty"} THEN EmptyObject ELSE file

(***************************************************************************)
(* The document codec                                                      *)
(***************************************************************************)
HasBody(doc) == doc.kind = "doc" /\ doc.display.s # ""

\* the heading line "# ADR-<adr_no>: <title>" when adr_no is null
RawHeading(title) == "# ADR-null: " \o title

\* generateMarkdown, lines 41-92.  matter.stringify dumps the front matter
\* with js-yaml, which throws (an error without a code) on an undefined
\* value.
GenerateMarkdown(aidlData) ==
  IF aidlData.adr_no = JsUndefined THEN [err |-> "YAMLException", doc |-> NoDocFile]
  ELSE [err |-> "",
        doc |-> [kind |-> "doc", id |-> aidlData.id, aidl_no |-> aidlData.adr_no,
                 status |-> aidlData.status,
                 display |-> IF aidlData.status = "SUPERSEDED"
                                /\ aidlData.superseded_by # NoRef
                             THEN [s |-> "SUPERSEDED", by |-> aidlData.superseded_by]
                             ELSE [s |-> aidlData.status, by |-> NoRef],
                 title |-> aidlData.title, context |-> aidlData.context,
                 assumptions |-> aidlData.assumptions,
                 consequences |-> aidlData.consequences,
                 cost |-> aidlData.cost]]

\* get, lines 209-292: the fields extracted from the body.  The title is
\* the heading with /^# ADR-\d+:\s*/ removed.  The line "**Positive**"
\* that follows "## Consequences" resets currentSection (lines 257-259) and
\* the switch of lines 264-290 has no case for consequences or cost, so
\* both keep their initial empty lists (lines 218-220).
ExtractedData(doc) ==
  [title |-> IF ~HasBody(doc) THEN ""
             ELSE IF IsInteger(doc.aidl_no) THEN doc.title
             ELSE RawHeading(doc.title),
   context |-> IF HasBody(doc) THEN doc.context ELSE "",
   assumptions |-> IF HasBody(doc) THEN doc.assumptions ELSE <<>>,
   consequences |-> EmptyConsequences,
   cost |-> EmptyCost]

\* get, lines 294-297: {...indexItem, ...extractedData}
GetResult(indexItem, doc) ==
  LET e == ExtractedData(doc)
  IN [id |-> indexItem.id, adr_no |-> indexItem.adr_no, status |-> indexItem.status,
      date |-> indexItem.date, superseded_by |-> indexItem.superseded_by,
      title |-> e.title, context |-> e.context, assumptions |-> e.assumptions,
      consequences |-> e.consequences, cost |-> e.cost]

\* updateStatus lines 430-443 and supersede lines 507-520: matter() of the
\* document read, front matter status set, the status line replaced where
\* the body has one, matter.stringify of the result
RewriteStatus(doc, status, display) ==
  [doc EXCEPT !.kind = "doc", !.status = status,
              !.display = IF HasBody(doc) THEN display ELSE @]

(***************************************************************************)
(* list, part_001 lines 594-638                                            *)
(***************************************************************************)
\* a filter that was not given (`if (status)`, `if (from)`, `if (to)`)
NoStatus == ""
NoDate == 0

\* Object.values(index.items), line 600: the entries in the order of their
\* keys, which is the order in which create inserted them (line 147), that
\* is by adr_no where the numbers are distinct integers
RECURSIVE ObjectValues(_)
ObjectValues(items) ==
  IF DOMAIN items = {} THEN <<>>
  ELSE LET first == CHOOSE i \in DOMAIN items :
                      \A j \in DOMAIN items : items[i].adr_no <= items[j].adr_no
       IN <<items[first]>>
            \o ObjectValues([j \in DOMAIN items \ {first} |-> items[j]])

\* lines 603-615
MatchesFilters(item, params) ==
  /\ params.status # NoStatus => item.status = params.status
  /\ params.from # NoDate => item.date >= params.from
  /\ params.to # NoDate => item.date <= params.to

\* Array.prototype.sort with (a, b) => b.date - a.date, line 618: stable,
\* an entry goes behind the entries that are not older than it
RECURSIVE SortByDateDesc(_)
SortByDateDesc(items) ==
  IF items = <<>> THEN <<>>
  ELSE LET sorted == SortByDateDesc(SubSeq(items, 1, Len(items) - 1))
           x == items[Len(items)]
           k == Cardinality({i \in 1..Len(sorted) : sorted[i].date >= x.date})
       IN SubSeq(sorted, 1, k) \o <<x>> \o SubSeq(sorted, k + 1, Len(sorted))

\* lines 600-618: the filtered entries, most recent first
FilteredItems(index, params) ==
  SortByDateDesc(SelectSeq(ObjectValues(index.items),
                           LAMBDA item : MatchesFilters(item, params)))

\* Array.prototype.slice(start, end) for 0 <= start <= end
Slice(items, start, end) ==
  SubSeq(items, start + 1, IF end < Len(items) THEN end ELSE Len(items))

\* Math.ceil(a / b) for a >= 0, b >= 1
MathCeilDiv(a, b) == (a + b - 1) \div b

\* list telling has_next on the last page as well
ListHasNextOnLastPage(index, params) ==
  LET items == FilteredItems(index, params)
      totalItems == Len(items)
      totalPages == MathCeilDiv(totalItems, params.page_size)
      startIndex == (params.page - 1) * params.page_size
      endIndex == startIndex + params.page_size
  IN [k |-> "list", items |-> Slice(items, startIndex, endIndex),
      page |-> params.page, page_size |-> params.page_size,
      total_items |-> totalItems, total_pages |-> totalPages,
      has_next |-> params.page <= totalPages, has_prev |-> params.page > 1]

\* lines 620-637
List(index, params) ==
  LET items == FilteredItems(index, params)
      totalItems == Len(items)
      totalPages == MathCeilDiv(totalItems, params.page_size)
      startIndex == (params.page - 1) * params.page_size
      endIndex == startIndex + params.page_size
  IN [k |-> "list", items |-> Slice(items, startIndex, endIndex),
      page |-> params.page, page_size |-> params.page_size,
      total_items |-> totalItems, total_pages |-> totalPages,
      has_next |-> params.page < totalPages, has_prev |-> params.page > 1]

(***************************************************************************)
(* Calls                                                                   *)
(***************************************************************************)
NoRefArg == [byNo |-> FALSE, id |-> "", no |-> 0]
NoPatch == [f \in {} |-> ""]
NoMem == [k |-> "none"]
NoOut == [k |-> "none"]
NoListParams == [status |-> NoStatus, from |-> NoDate, to |-> NoDate,
                 page |-> 1, page_size |-> 1]

RefInputs ==
  {[byNo |-> FALSE, id |-> i, no |-> 0] : i \in Ids}
    \cup {[byNo |-> TRUE, id |-> "", no |-> n] : n \in 1..2}

allowedFields == {"title", "context", "decision", "rationale", "assumptions",
                  "risks", "cost", "consequences", "expected_result"}

\* create params besides id and title (lines 119, 153-164)
CreateBody ==
  [context |-> "c1", assumptions |-> <<"s1">>,
   consequences |-> [positive |-> <<"p1">>, negative |-> <<"n1">>],
   cost |-> [one_off |-> <<"k1">>, ongoing |-> <<"k2">>]]

PatchInputs ==
  { ("title" :> "t2"),
    ("context" :> "c2"),
    ("title" :> "t2") @@ ("status" :> "ACCEPTED") }

Idle ==
  [op |-> "none", pc |-> "idle", id |-> "", title |-> "", status |-> "",
   ref |-> NoRefArg, patch |-> NoPatch, inget |-> FALSE, wpath |-> "",
   wdata |-> NoMem, tries |-> 0, err |-> "", mem |-> NoMem, out |-> NoOut,
   mutated |-> FALSE, params |-> NoListParams]

\* the call has ended: thrown error (or "") and returned value
Done(rec, err, out) ==
  [rec EXCEPT !.pc = "done", !.inget = FALSE, !.wpath = "", !.wdata = NoMem,
              !.tries = 0, !.err = err, !.mem = NoMem, !.out = out]

\* part_002 lines 18-24
ErrorCodes == {"E_NOT_FOUND", "E_EXISTS", "E_INVALID", "E_CONFLICT", "E_IO"}

\* errors thrown by the JavaScript runtime or by js-yaml: they have no code
Uncoded == {"TypeError", "YAMLException"}

\* the code of a rejected fs call (a Node.js errno name)
FsErrorCodes == {"ENOSPC"}

\* handleError, part_002 lines 27-43: the error kind the adapter reports is
\* error.code where the error has one, E_IO otherwise
handleError(err) == IF err \in Uncoded THEN "E_IO" ELSE err

File(path) == IF path = "index" THEN idx ELSE docs[path]

\* writeFileAtomic(path, content) is entered: ensureDir, then exists()
BeginWrite(rec, path, content) ==
  [rec EXCEPT !.pc = "w_exists", !.wpath = path, !.wdata = content, !.tries = 0]

\* updateJsonFileAtomic(indexPath, callback) is entered
BeginUpdate(rec) == [rec EXCEPT !.pc = "u_exists", !.tries = 0]

\* the document is generated and written (create 167-168, update 580-581)
WriteMarkdown(rec, aidlData) ==
  LET g == GenerateMarkdown(aidlData)
  IN IF g.err # "" THEN Done(rec, g.err, NoOut)
     ELSE BeginWrite(rec, rec.id, g.doc)

\* AfterInit without the status check of lines 393-398
AfterInitNoValidation(rec) ==
  CASE rec.op = "create" -> [rec EXCEPT !.pc = "c_exists"]
    [] rec.op = "get" -> [rec EXCEPT !.pc = "g_exists"]
    [] rec.op = "updateStatus" -> [rec EXCEPT !.pc = "s_exists"]
    [] rec.op = "supersede" -> [rec EXCEPT !.pc = "x_exists"]
    [] rec.op = "list" -> [rec EXCEPT !.pc = "l_index"]
    [] rec.op = "update" ->
         IF rec.inget THEN [rec EXCEPT !.pc = "g_exists"]
         ELSE IF DOMAIN rec.patch \ allowedFields # {}
           THEN Done(rec, "E_INVALID", NoOut)
         ELSE [rec EXCEPT !.pc = "p_exists"]

\* AfterInit without the allow-list check of lines 541-548
AfterInitNoAllowList(rec) ==
  CASE rec.op = "create" -> [rec EXCEPT !.pc = "c_exists"]
    [] rec.op = "get" -> [rec EXCEPT !.pc = "g_exists"]
    [] rec.op = "updateStatus" ->
         IF rec.status \notin validStatuses
           THEN Done(rec, "E_INVALID", NoOut)
         ELSE [rec EXCEPT !.pc = "s_exists"]
    [] rec.op = "supersede" -> [rec EXCEPT !.pc = "x_exists"]
    [] rec.op = "list" -> [rec EXCEPT !.pc = "l_index"]
    [] rec.op = "update" ->
         IF rec.inget THEN [rec EXCEPT !.pc = "g_exists"]
         ELSE [rec EXCEPT !.pc = "p_exists"]

\* the code after `await this.initialize()` up to the next await
AfterInit(rec) ==
  CASE rec.op = "create" -> [rec EXCEPT !.pc = "c_exists"]
    [] rec.op = "get" -> [rec EXCEPT !.pc = "g_exists"]
    [] rec.op = "updateStatus" ->
         IF rec.status \notin validStatuses
           THEN Done(rec, "E_INVALID", NoOut)
         ELSE [rec EXCEPT !.pc = "s_exists"]
    [] rec.op = "supersede" -> [rec EXCEPT !.pc = "x_exists"]
    [] rec.op = "list" -> [rec EXCEPT !.pc = "l_index"]
    [] rec.op = "update" ->
         IF rec.inget THEN [rec EXCEPT !.pc = "g_exists"]
         ELSE IF DOMAIN rec.patch \ allowedFields # {}
           THEN Done(rec, "E_INVALID", NoOut)
         ELSE [rec EXCEPT !.pc = "p_exists"]

\* the value a call returns after its document write
Result(rec) ==
  CASE rec.op = "create" ->
         [k |-> "create", adr_no |-> rec.mem.adr_no, status |-> rec.mem.status,
          date |-> rec.mem.date]
    [] rec.op = "updateStatus" -> [k |-> "updateStatus", status |-> rec.status]
    [] rec.op = "supersede" ->
         [k |-> "supersede", status |-> "SUPERSEDED", superseded_by |-> rec.mem.sbNo]
    [] rec.op = "update" -> [k |-> "update", updated_fields |-> DOMAIN rec.patch]

\* the code after writeFileAtomic returns: initialize returns (line 27), or
\* the operation returns its result
AfterWrite(rec) ==
  IF rec.wpath = "index" THEN AfterInit([rec EXCEPT !.wpath = "", !.wdata = NoMem])
  ELSE Done(rec, "", Result(rec))

\* the callback of the running operation, applied to the index read
Callback(rec, currentIndex, date) ==
  CASE rec.op = "create" -> CreateCallback(currentIndex, rec.id, rec.title, date)
    [] rec.op = "updateStatus" -> UpdateStatusCallback(currentIndex, rec.id, rec.status)
    [] rec.op = "supersede" -> SupersedeCallback(currentIndex, rec.id, rec.mem.sbNo)
    [] rec.op = "update" -> UpdateTitleCallback(currentIndex, rec.id, rec.patch["title"])
    [] rec.op = "lockedUpdate" -> CreateCallback(currentIndex, rec.id, rec.title, date)

\* the code after updateJsonFileAtomic returns, up to the next await
AfterUpdate(rec) ==
  CASE rec.op = "create" ->
         WriteMarkdown(rec, [id |-> rec.mem.id, adr_no |-> rec.mem.adr_no,
                             status |-> rec.mem.status,
                             superseded_by |-> rec.mem.superseded_by,
                             title |-> rec.title, context |-> CreateBody.context,
                             assumptions |-> CreateBody.assumptions,
                             consequences |-> CreateBody.consequences,
                             cost |-> CreateBody.cost])
    [] rec.op = "updateStatus" -> [rec EXCEPT !.pc = "s_read", !.wdata = NoMem]
    [] rec.op = "supersede" -> [rec EXCEPT !.pc = "x_read", !.wdata = NoMem]
    [] rec.op = "update" -> WriteMarkdown([rec EXCEPT !.wdata = NoMem], rec.mem)
    [] rec.op = "lockedUpdate" ->
         Done(rec, "", [k |-> "lockedUpdate", updatedData |-> rec.wdata])

(***************************************************************************)
(* proper-lockfile retry budget: retries: 5, so six attempts               *)
(***************************************************************************)
retries == 5

Set(c, rec) == call' = [call EXCEPT ![c] = rec]
At(c, pc) == c \in callers /\ call[c].pc = pc

WriteFile(path, content) ==
  IF path = "index"
  THEN idx' = content /\ UNCHANGED docs
  ELSE docs' = [docs EXCEPT ![path] = content] /\ UNCHANGED idx

(***************************************************************************)
(* A call is started: its `await this.initialize()` runs ensureDir and     *)
(* issues exists(indexPath).                                               *)
(***************************************************************************)
CallBudget == IF callers = {1} THEN MaxSeqCalls ELSE MaxCalls

NoLast == [op |-> "none", id |-> "", err |-> "", out |-> NoOut]

\* what is remembered of the call that a new call replaces
LastGet(rec) ==
  IF rec.op = "get" /\ rec.pc = "done"
  THEN [op |-> "get", id |-> rec.id, err |-> rec.err, out |-> rec.out]
  ELSE NoLast

Begin(c, rec) ==
  /\ c \in callers
  /\ call[c].pc \in {"idle", "done"}
  /\ ncalls < CallBudget
  /\ ncalls' = ncalls + 1
  /\ pre' = IF callers = {1}
            THEN [idx |-> idx, docs |-> docs, last |-> LastGet(call[c])] ELSE pre
  /\ dirExists' = TRUE
  /\ Set(c, [rec EXCEPT !.pc = "init_exists"])
  /\ UNCHANGED <<idx, docs, lock, tmp, issued, callers>>

StartCreate(c) ==
  \E id \in Ids, title \in CreateTitles :
    Begin(c, [Idle EXCEPT !.op = "create", !.id = id, !.title = title])

StartGet(c) ==
  \E id \in Ids : Begin(c, [Idle EXCEPT !.op = "get", !.id = id])

StartUpdateStatus(c) ==
  \E id \in Ids, st \in StatusInputs :
    Begin(c, [Idle EXCEPT !.op = "updateStatus", !.id = id, !.status = st])

StartSupersede(c) ==
  \E id \in Ids, ref \in RefInputs :
    Begin(c, [Idle EXCEPT !.op = "supersede", !.id = id, !.ref = ref])

StartUpdate(c) ==
  \E id \in Ids, patch \in PatchInputs :
    Begin(c, [Idle EXCEPT !.op = "update", !.id = id, !.patch = patch])

(***************************************************************************)
(* initialize, part_001 lines 18-29                                        *)
(***************************************************************************)
InitExists(c) ==
  /\ At(c, "init_exists")
  /\ Set(c, IF Exists(idx) THEN AfterInit(call[c])
            ELSE BeginWrite(call[c], "index", initialIndex))
  /\ UNCHANGED <<dirExists, idx, docs, lock, tmp, issued, ncalls, pre, callers>>

(***************************************************************************)
(* writeFileAtomic, file-utils.js lines 72-132                             *)
(***************************************************************************)
\* line 83
WExists(c) ==
  /\ At(c, "w_exists")
  /\ Set(c, [call[c] EXCEPT !.pc = IF Exists(File(call[c].wpath))
                                   THEN "w_lock" ELSE "w_place"])
  /\ UNCHANGED <<dirExists, idx, docs, lock, tmp, issued, ncalls, pre, callers>>

\* line 84: fs.writeFile(filePath, '')
WPlaceholder(c) ==
  /\ At(c, "w_place")
  /\ WriteFile(call[c].wpath, IF call[c].wpath = "index" THEN EmptyIndexFile
                              ELSE EmptyDocFile)
  /\ Set(c, [call[c] EXCEPT !.pc = "w_lock"])
  /\ UNCHANGED <<dirExists, lock, tmp, issued, ncalls, pre, callers>>

\* lines 87-94: the lock is taken
WLock(c) ==
  /\ At(c, "w_lock")
  /\ lock[call[c].wpath] = 0
  /\ lock' = [lock EXCEPT ![call[c].wpath] = c]
  /\ Set(c, [call[c] EXCEPT !.pc = "w_temp", !.tries = 0])
  /\ UNCHANGED <<dirExists, idx, docs, tmp, issued, ncalls, pre, callers>>

\* an attempt finds the lock held and is retried
WLockBusy(c) ==
  /\ At(c, "w_lock")
  /\ lock[call[c].wpath] # 0
  /\ call[c].tries < retries
  /\ Set(c, [call[c] EXCEPT !.tries = @ + 1])
  /\ UNCHANGED <<dirExists, idx, docs, lock, tmp, issued, ncalls, pre, callers>>

\* writeFileAtomic reporting lock exhaustion as an I/O failure
WLockFailAsIO(c) ==
  /\ At(c, "w_lock")
  /\ lock[call[c].wpath] # 0
  /\ call[c].tries = retries
  /\ Set(c, Done(call[c], "E_IO", NoOut))
  /\ UNCHANGED <<dirExists, idx, docs, lock, tmp, issued, ncalls, pre, callers>>

\* lines 95-99, 107-117: the last attempt finds the lock held; E_CONFLICT,
\* no temporary file to unlink, no lock to release
WLockFail(c) ==
  /\ At(c, "w_lock")
  /\ lock[call[c].wpath] # 0
  /\ call[c].tries = retries
  /\ Set(c, Done(call[c], "E_CONFLICT", NoOut))
  /\ UNCHANGED <<dirExists, idx, docs, lock, tmp, issued, ncalls, pre, callers>>

\* line 102
WTemp(c) ==
  /\ At(c, "w_temp")
  /\ tmp' = tmp \cup {c}
  /\ Set(c, [call[c] EXCEPT !.pc = "w_rename"])
  /\ UNCHANGED <<dirExists, idx, docs, lock, issued, ncalls, pre, callers>>

\* line 105
WRename(c) ==
  /\ At(c, "w_rename")
  /\ WriteFile(call[c].wpath, call[c].wdata)
  /\ tmp' = tmp \ {c}
  /\ Set(c, [call[c] EXCEPT !.pc = "w_release"])
  /\ UNCHANGED <<dirExists, lock, issued, ncalls, pre, callers>>

\* writeFileAtomic releasing the lock where the write has succeeded only
WReleaseOnSuccess(c) ==
  /\ At(c, "w_release")
  /\ lock' = IF call[c].err # "" THEN lock ELSE [lock EXCEPT ![call[c].wpath] = 0]
  /\ LET rec == IF call[c].err # "" THEN Done(call[c], call[c].err, NoOut)
                ELSE AfterWrite(call[c])
     IN /\ Set(c, rec)
        /\ issued' = IF rec.pc = "done" /\ rec.op = "create" /\ rec.err = ""
                     THEN Append(issued, rec.out.adr_no) ELSE issued
  /\ UNCHANGED <<dirExists, idx, docs, tmp, ncalls, pre, callers>>

\* lines 107-131: the lock is released, then the error caught is thrown
\* again (it has a code, line 115) or the caller continues
WRelease(c) ==
  /\ At(c, "w_release")
  /\ lock' = [lock EXCEPT ![call[c].wpath] = 0]
  /\ LET rec == IF call[c].err # "" THEN Done(call[c], call[c].err, NoOut)
                ELSE AfterWrite(call[c])
     IN /\ Set(c, rec)
        /\ issued' = IF rec.pc = "done" /\ rec.op = "create" /\ rec.err = ""
                     THEN Append(issued, rec.out.adr_no) ELSE issued
  /\ UNCHANGED <<dirExists, idx, docs, tmp, ncalls, pre, callers>>

(***************************************************************************)
(* updateJsonFileAtomic, file-utils.js lines 184-249, on the index         *)
(***************************************************************************)
\* line 192
UExists(c) ==
  /\ At(c, "u_exists")
  /\ Set(c, [call[c] EXCEPT !.pc = IF Exists(idx) THEN "u_lock" ELSE "u_place"])
  /\ UNCHANGED <<dirExists, idx, docs, lock, tmp, issued, ncalls, pre, callers>>

\* line 193: fs.writeFile(filePath, '{}').  Not a step of an AidlManager
\* operation: initialize has returned before updateJsonFileAtomic is
\* called, and no file is ever removed.
UPlaceholder(c) ==
  /\ At(c, "u_place")
  /\ idx' = EmptyObject
  /\ Set(c, [call[c] EXCEPT !.pc = "u_lock"])
  /\ UNCHANGED <<dirExists, docs, lock, tmp, issued, ncalls, pre, callers>>

\* lines 198-205
ULock(c) ==
  /\ At(c, "u_lock")
  /\ lock["index"] = 0
  /\ lock' = [lock EXCEPT !["index"] = c]
  /\ Set(c, [call[c] EXCEPT !.pc = "u_read", !.tries = 0])
  /\ UNCHANGED <<dirExists, idx, docs, tmp, issued, ncalls, pre, callers>>

ULockBusy(c) ==
  /\ At(c, "u_lock")
  /\ lock["index"] # 0
  /\ call[c].tries < retries
  /\ Set(c, [call[c] EXCEPT !.tries = @ + 1])
  /\ UNCHANGED <<dirExists, idx, docs, lock, tmp, issued, ncalls, pre, callers>>

\* lines 206-210
ULockFail(c) ==
  /\ At(c, "u_lock")
  /\ lock["index"] # 0
  /\ call[c].tries = retries
  /\ Set(c, Done(call[c], "E_CONFLICT", NoOut))
  /\ UNCHANGED <<dirExists, idx, docs, lock, tmp, issued, ncalls, pre, callers>>

\* lines 213-231: the index is read and the callback applied
URead(c) ==
  /\ At(c, "u_read")
  /\ \E date \in Dates :
       LET r == Callback(call[c], CurrentData(idx), date)
       IN Set(c, IF r.err # "" THEN [call[c] EXCEPT !.pc = "u_release", !.err = r.err]
                 ELSE [call[c] EXCEPT
                         !.pc = "u_temp", !.wdata = r.data,
                         !.mem = IF call[c].op = "create"
                                 THEN r.data.items[call[c].id] ELSE @])
  /\ UNCHANGED <<dirExists, idx, docs, lock, tmp, issued, ncalls, pre, callers>>

\* line 234
UTemp(c) ==
  /\ At(c, "u_temp")
  /\ tmp' = tmp \cup {c}
  /\ Set(c, [call[c] EXCEPT !.pc = "u_rename"])
  /\ UNCHANGED <<dirExists, idx, docs, lock, issued, ncalls, pre, callers>>

\* line 235
URename(c) ==
  /\ At(c, "u_rename")
  /\ idx' = Stringify(call[c].wdata)
  /\ tmp' = tmp \ {c}
  /\ Set(c, [call[c] EXCEPT !.pc = "u_release", !.mutated = TRUE])
  /\ UNCHANGED <<dirExists, docs, lock, issued, ncalls, pre, callers>>

\* updateJsonFileAtomic throwing an I/O error in place of the callback's
UReleaseWrapsError(c) ==
  /\ At(c, "u_release")
  /\ lock' = [lock EXCEPT !["index"] = 0]
  /\ Set(c, IF call[c].err # "" THEN Done(call[c], "E_IO", NoOut)
            ELSE AfterUpdate(call[c]))
  /\ UNCHANGED <<dirExists, idx, docs, tmp, issued, ncalls, pre, callers>>

\* lines 239-248, then the caller continues or the callback's error is thrown
URelease(c) ==
  /\ At(c, "u_release")
  /\ lock' = [lock EXCEPT !["index"] = 0]
  /\ Set(c, IF call[c].err # "" THEN Done(call[c], call[c].err, NoOut)
            ELSE AfterUpdate(call[c]))
  /\ UNCHANGED <<dirExists, idx, docs, tmp, issued, ncalls, pre, callers>>

(***************************************************************************)
(* Filesystem failures: fs.writeFile of the temporary file or fs.rename    *)
(* rejects with an error that carries a Node.js code.                      *)
(***************************************************************************)
\* line 102 rejects; the catch of lines 107-121 unlinks the temporary file
\* and throws the error again, since it has a code
WTempFails(c) ==
  /\ At(c, "w_temp")
  /\ \E e \in FsErrorCodes : Set(c, [call[c] EXCEPT !.pc = "w_release", !.err = e])
  /\ UNCHANGED <<dirExists, idx, docs, lock, tmp, issued, ncalls, pre, callers>>

\* line 105 rejects
WRenameFails(c) ==
  /\ At(c, "w_rename")
  /\ tmp' = tmp \ {c}
  /\ \E e \in FsErrorCodes : Set(c, [call[c] EXCEPT !.pc = "w_release", !.err = e])
  /\ UNCHANGED <<dirExists, idx, docs, lock, issued, ncalls, pre, callers>>

\* line 234 rejects; updateJsonFileAtomic has no catch, the finally of
\* lines 239-248 releases the lock
UTempFails(c) ==
  /\ At(c, "u_temp")
  /\ \E e \in FsErrorCodes : Set(c, [call[c] EXCEPT !.pc = "u_release", !.err = e])
  /\ UNCHANGED <<dirExists, idx, docs, lock, tmp, issued, ncalls, pre, callers>>

\* line 235 rejects; the temporary file stays
URenameFails(c) ==
  /\ At(c, "u_rename")
  /\ \E e \in FsErrorCodes : Set(c, [call[c] EXCEPT !.pc = "u_release", !.err = e])
  /\ UNCHANGED <<dirExists, idx, docs, lock, tmp, issued, ncalls, pre, callers>>

(***************************************************************************)
(* readJsonFile(indexPath) outside the lock, file-utils.js lines 55-67:    *)
(* the error it throws ("" if none).  Zero bytes do not parse.             *)
(***************************************************************************)
ReadJsonError(file) ==
  IF file.kind = "absent" THEN "E_NOT_FOUND"
  ELSE IF file.kind = "empty" THEN "E_INVALID"
  ELSE ""

(***************************************************************************)
(* create, part_001 lines 118-178                                          *)
(***************************************************************************)
\* create without the existence check of lines 124-129
CreateExistsNoCheck(c) ==
  /\ At(c, "c_exists")
  /\ Set(c, BeginUpdate(call[c]))
  /\ UNCHANGED <<dirExists, idx, docs, lock, tmp, issued, ncalls, pre, callers>>

\* lines 124-129, then updateJsonFileAtomic is entered
CreateExists(c) ==
  /\ At(c, "c_exists")
  /\ Set(c, IF Exists(docs[call[c].id]) THEN Done(call[c], "E_EXISTS", NoOut)
            ELSE BeginUpdate(call[c]))
  /\ UNCHANGED <<dirExists, idx, docs, lock, tmp, issued, ncalls, pre, callers>>

(***************************************************************************)
(* get, part_001 lines 183-298 (also called by update, line 566)           *)
(***************************************************************************)
\* lines 186-191
GetExists(c) ==
  /\ At(c, "g_exists")
  /\ Set(c, IF ~Exists(docs[call[c].id]) THEN Done(call[c], "E_NOT_FOUND", NoOut)
            ELSE [call[c] EXCEPT !.pc = "g_index"])
  /\ UNCHANGED <<dirExists, idx, docs, lock, tmp, issued, ncalls, pre, callers>>

\* lines 194-201
GetIndex(c) ==
  /\ At(c, "g_index")
  /\ Set(c, IF ReadJsonError(idx) # "" THEN Done(call[c], ReadJsonError(idx), NoOut)
            ELSE IF idx.kind # "json" THEN Done(call[c], "TypeError", NoOut)
            ELSE IF call[c].id \notin DOMAIN idx.items
              THEN Done(call[c], "E_INVALID", NoOut)
            ELSE [call[c] EXCEPT !.pc = "g_doc", !.mem = idx.items[call[c].id]])
  /\ UNCHANGED <<dirExists, idx, docs, lock, tmp, issued, ncalls, pre, callers>>

\* update line 569: { ...currentData, ...updateFields }
ApplyPatch(data, patch) ==
  [f \in DOMAIN data |-> IF f \in DOMAIN patch THEN patch[f] ELSE data[f]]

\* get writing the document back as it has read it
GetDocRewrites(c) ==
  /\ At(c, "g_doc")
  /\ LET currentData == GetResult(call[c].mem, docs[call[c].id])
         updatedData == ApplyPatch(currentData, call[c].patch)
         rec == [call[c] EXCEPT !.inget = FALSE, !.mem = updatedData]
     IN /\ Set(c, IF call[c].op = "get" THEN Done(call[c], "", currentData)
                  ELSE IF "title" \in DOMAIN call[c].patch THEN BeginUpdate(rec)
                  ELSE WriteMarkdown(rec, updatedData))
        /\ docs' = IF call[c].op = "get"
                   THEN [docs EXCEPT ![call[c].id] = GenerateMarkdown(currentData).doc]
                   ELSE docs
  /\ UNCHANGED <<dirExists, idx, lock, tmp, issued, ncalls, pre, callers>>

\* lines 204-297; in update, lines 569-581 follow
GetDoc(c) ==
  /\ At(c, "g_doc")
  /\ LET currentData == GetResult(call[c].mem, docs[call[c].id])
         updatedData == ApplyPatch(currentData, call[c].patch)
         rec == [call[c] EXCEPT !.inget = FALSE, !.mem = updatedData]
     IN Set(c, IF call[c].op = "get" THEN Done(call[c], "", currentData)
               ELSE IF "title" \in DOMAIN call[c].patch THEN BeginUpdate(rec)
               ELSE WriteMarkdown(rec, updatedData))
  /\ UNCHANGED <<dirExists, idx, docs, lock, tmp, issued, ncalls, pre, callers>>

(***************************************************************************)
(* updateStatus, part_001 lines 389-453                                    *)
(***************************************************************************)
\* lines 400-405
StatusExists(c) ==
  /\ At(c, "s_exists")
  /\ Set(c, IF ~Exists(docs[call[c].id]) THEN Done(call[c], "E_NOT_FOUND", NoOut)
            ELSE BeginUpdate(call[c]))
  /\ UNCHANGED <<dirExists, idx, docs, lock, tmp, issued, ncalls, pre, callers>>

\* lines 430-444
StatusRead(c) ==
  /\ At(c, "s_read")
  /\ Set(c, BeginWrite(call[c], call[c].id,
                       RewriteStatus(docs[call[c].id], call[c].status,
                                     [s |-> call[c].status, by |-> NoRef])))
  /\ UNCHANGED <<dirExists, idx, docs, lock, tmp, issued, ncalls, pre, callers>>

(***************************************************************************)
(* supersede, part_001 lines 458-530                                       *)
(***************************************************************************)
\* lines 461-466
SupersedeExists(c) ==
  /\ At(c, "x_exists")
  /\ Set(c, IF ~Exists(docs[call[c].id]) THEN Done(call[c], "E_NOT_FOUND", NoOut)
            ELSE [call[c] EXCEPT !.pc = "x_index"])
  /\ UNCHANGED <<dirExists, idx, docs, lock, tmp, issued, ncalls, pre, callers>>

\* lines 475-485: the ids the reference can resolve to.  find() returns the
\* first id in key order with that adr_no; the order of the keys is not
\* modelled, so any id with that adr_no may be the one.
ResolveIds(index, ref) ==
  IF ref.byNo THEN {i \in DOMAIN index.items : index.items[i].adr_no = ref.no}
  ELSE {ref.id}

\* Resolve without the self reference check of lines 493-497
ResolveNoSelfCheck(rec, index) ==
  IF ReadJsonError(index) # "" THEN {Done(rec, ReadJsonError(index), NoOut)}
  ELSE IF index.kind # "json" THEN {Done(rec, "TypeError", NoOut)}
  ELSE IF ResolveIds(index, rec.ref) \cap DOMAIN index.items = {}
    THEN {Done(rec, "E_NOT_FOUND", NoOut)}
  ELSE { BeginUpdate([rec EXCEPT !.mem =
                [sbId |-> sbId,
                 sbNo |-> IF rec.ref.byNo THEN rec.ref.no
                          ELSE index.items[sbId].adr_no]])
         : sbId \in ResolveIds(index, rec.ref) }

\* Resolve reporting an unresolvable reference as an invalid one
ResolveInvalidForMissing(rec, index) ==
  IF ReadJsonError(index) # "" THEN {Done(rec, ReadJsonError(index), NoOut)}
  ELSE IF index.kind # "json" THEN {Done(rec, "TypeError", NoOut)}
  ELSE IF ResolveIds(index, rec.ref) \cap DOMAIN index.items = {}
    THEN {Done(rec, "E_INVALID", NoOut)}
  ELSE { IF sbId = rec.id THEN Done(rec, "E_INVALID", NoOut)
         ELSE BeginUpdate([rec EXCEPT !.mem =
                [sbId |-> sbId,
                 sbNo |-> IF rec.ref.byNo THEN rec.ref.no
                          ELSE index.items[sbId].adr_no]])
         : sbId \in ResolveIds(index, rec.ref) }

\* lines 469-497: the call after the index is read and the reference checked
Resolve(rec, index) ==
  IF ReadJsonError(index) # "" THEN {Done(rec, ReadJsonError(index), NoOut)}
  ELSE IF index.kind # "json" THEN {Done(rec, "TypeError", NoOut)}
  ELSE IF ResolveIds(index, rec.ref) \cap DOMAIN index.items = {}
    THEN {Done(rec, "E_NOT_FOUND", NoOut)}
  ELSE { IF sbId = rec.id THEN Done(rec, "E_INVALID", NoOut)
         ELSE BeginUpdate([rec EXCEPT !.mem =
                [sbId |-> sbId,
                 sbNo |-> IF rec.ref.byNo THEN rec.ref.no
                          ELSE index.items[sbId].adr_no]])
         : sbId \in ResolveIds(index, rec.ref) }

SupersedeIndex(c) ==
  /\ At(c, "x_index")
  /\ \E rec \in Resolve(call[c], idx) : Set(c, rec)
  /\ UNCHANGED <<dirExists, idx, docs, lock, tmp, issued, ncalls, pre, callers>>

\* lines 507-521
SupersedeRead(c) ==
  /\ At(c, "x_read")
  /\ Set(c, BeginWrite(call[c], call[c].id,
                       RewriteStatus(docs[call[c].id], "SUPERSEDED",
                                     [s |-> "SUPERSEDED", by |-> call[c].mem.sbNo])))
  /\ UNCHANGED <<dirExists, idx, docs, lock, tmp, issued, ncalls, pre, callers>>

(***************************************************************************)
(* update, part_001 lines 535-589                                          *)
(***************************************************************************)
\* lines 550-555
UpdateExists(c) ==
  /\ At(c, "p_exists")
  /\ Set(c, IF ~Exists(docs[call[c].id]) THEN Done(call[c], "E_NOT_FOUND", NoOut)
            ELSE [call[c] EXCEPT !.pc = "p_index"])
  /\ UNCHANGED <<dirExists, idx, docs, lock, tmp, issued, ncalls, pre, callers>>

\* update without the SUPERSEDED check of lines 558-563
CheckSupersededNever(rec, index) ==
  IF ReadJsonError(index) # "" THEN Done(rec, ReadJsonError(index), NoOut)
  ELSE IF index.kind # "json" THEN Done(rec, "TypeError", NoOut)
  ELSE [rec EXCEPT !.pc = "init_exists", !.inget = TRUE]

\* lines 558-563: the call after the index is read
CheckSuperseded(rec, index) ==
  IF ReadJsonError(index) # "" THEN Done(rec, ReadJsonError(index), NoOut)
  ELSE IF index.kind # "json" THEN Done(rec, "TypeError", NoOut)
  ELSE IF rec.id \in DOMAIN index.items /\ index.items[rec.id].status = "SUPERSEDED"
    THEN Done(rec, "E_CONFLICT", NoOut)
  ELSE [rec EXCEPT !.pc = "init_exists", !.inget = TRUE]

\* lines 558-566: then get(id) is entered and runs initialize
UpdateIndex(c) ==
  /\ At(c, "p_index")
  /\ Set(c, CheckSuperseded(call[c], idx))
  /\ UNCHANGED <<dirExists, idx, docs, lock, tmp, issued, ncalls, pre, callers>>

(***************************************************************************)
(* list, part_001 lines 594-638                                            *)
(***************************************************************************)
\* page_size 20 is the default of line 597
PageSizes == {1, 2, 20}
ListDates == {1, 2}

ListInputs ==
  [status : {NoStatus, "ACCEPTED"}, from : {NoDate, 2}, to : {NoDate, 1},
   page : 1..MaxPage, page_size : PageSizes]

StartList(c) ==
  \E params \in ListInputs :
    Begin(c, [Idle EXCEPT !.op = "list", !.params = params])

\* lines 599-637.  Object.values of an index without items is a TypeError.
ListIndex(c) ==
  /\ At(c, "l_index")
  /\ Set(c, IF ReadJsonError(idx) # "" THEN Done(call[c], ReadJsonError(idx), NoOut)
            ELSE IF idx.kind # "json" THEN Done(call[c], "TypeError", NoOut)
            ELSE Done(call[c], "", List(idx, call[c].params)))
  /\ UNCHANGED <<dirExists, idx, docs, lock, tmp, issued, ncalls, pre, callers>>

(***************************************************************************)
(* FileUtils.updateJsonFileAtomic(indexPath, callback) called directly,    *)
(* file-utils.js lines 184-249, with the callback of create                *)
(***************************************************************************)
StartLockedUpdate(c) ==
  /\ c \in callers
  /\ call[c].pc \in {"idle", "done"}
  /\ ncalls < MaxCalls
  /\ ncalls' = ncalls + 1
  /\ dirExists' = TRUE
  /\ \E id \in Ids, title \in CreateTitles :
       Set(c, BeginUpdate([Idle EXCEPT !.op = "lockedUpdate", !.id = id,
                                       !.title = title]))
  /\ UNCHANGED <<idx, docs, lock, tmp, issued, pre, callers>>

(***************************************************************************)
(* The specifications                                                      *)
(***************************************************************************)
InitStore ==
  /\ dirExists = FALSE
  /\ idx = NoIndexFile
  /\ docs = [i \in Ids |-> NoDocFile]
  /\ lock = [p \in Paths |-> 0]
  /\ tmp = {}
  /\ call = [c \in AllCallers |-> Idle]
  /\ issued = <<>>
  /\ ncalls = 0
  /\ pre = [idx |-> NoIndexFile, docs |-> [i \in Ids |-> NoDocFile], last |-> NoLast]

\* concurrent callers on a store that has no directory and no index yet
Init == InitStore /\ callers = AllCallers

\* one caller at a time, on the same store
InitSeq == InitStore /\ callers = {1}

\* the store after create("b") by a single caller on the empty store
\* (SeededStoreReached: SpecSeq reaches it)
SeededIndex ==
  [kind |-> "json", next |-> 2,
   items |-> ("b" :> [title |-> "t1", id |-> "b", adr_no |-> 1, status |-> "PROPOSED",
                      date |-> 1, superseded_by |-> NoRef])]
SeededDocs ==
  [i \in Ids |->
     IF i = "b"
     THEN [kind |-> "doc", id |-> "b", aidl_no |-> 1, status |-> "PROPOSED",
           display |-> [s |-> "PROPOSED", by |-> NoRef], title |-> "t1",
           context |-> CreateBody.context, assumptions |-> CreateBody.assumptions,
           consequences |-> CreateBody.consequences, cost |-> CreateBody.cost]
     ELSE NoDocFile]

SeededStore ==
  /\ dirExists = TRUE
  /\ idx = SeededIndex
  /\ docs = SeededDocs
  /\ lock = [p \in Paths |-> 0]
  /\ tmp = {}
  /\ call = [c \in AllCallers |-> Idle]
  /\ issued = <<1>>
  /\ pre = [idx |-> NoIndexFile, docs |-> [i \in Ids |-> NoDocFile], last |-> NoLast]
  /\ callers = AllCallers

\* concurrent callers on that store, MaxCalls calls to come
InitSeeded == SeededStore /\ ncalls = 0

\* the same with the create that made the store counted as the first call
InitFair == SeededStore /\ ncalls = 1

\* the stores that n creates by a single caller leave, n <= MaxItems, with
\* some of the records ACCEPTED since: ids in the order of their creation,
\* adr_no 1..n, dates that do not decrease from one create to the next
ListIdOrder == <<"a", "b", "c", "d", "e">>

ListedIndexes ==
  UNION { { [kind |-> "json", next |-> n + 1,
             items |-> [i \in {ListIdOrder[k] : k \in 1..n} |->
                          LET k == CHOOSE k \in 1..n : ListIdOrder[k] = i
                          IN [title |-> "t1", id |-> i, adr_no |-> k,
                              status |-> st[k], date |-> d[k],
                              superseded_by |-> NoRef]]]
            : st \in [1..n -> {"PROPOSED", "ACCEPTED"}],
              d \in {f \in [1..n -> ListDates] :
                        \A j, k \in 1..n : j < k => f[j] <= f[k]} }
          : n \in 0..MaxItems }

ListedDocs(index) ==
  [i \in DOMAIN index.items |->
     GenerateMarkdown([id |-> i, adr_no |-> index.items[i].adr_no,
                       status |-> index.items[i].status,
                       superseded_by |-> index.items[i].superseded_by,
                       title |-> index.items[i].title,
                       context |-> CreateBody.context,
                       assumptions |-> CreateBody.assumptions,
                       consequences |-> CreateBody.consequences,
                       cost |-> CreateBody.cost]).doc]

\* a single caller on such a store, one call to come
InitList ==
  /\ dirExists = TRUE
  /\ idx \in ListedIndexes
  /\ docs = ListedDocs(idx)
  /\ lock = [p \in Paths |-> 0]
  /\ tmp = {}
  /\ call = [c \in AllCallers |-> Idle]
  /\ issued = [k \in 1..(idx.next - 1) |-> k]
  /\ ncalls = MaxSeqCalls - 1
  /\ pre = [idx |-> NoIndexFile, docs |-> [i \in Ids |-> NoDocFile], last |-> NoLast]
  /\ callers = {1}

\* concurrent callers of updateJsonFileAtomic on a path that does not
\* exist, or that holds the index of the seeded store; pre keeps the file
\* they start on
InitLocked ==
  /\ dirExists \in BOOLEAN
  /\ idx \in {NoIndexFile, SeededIndex}
  /\ dirExists = Exists(idx)
  /\ docs = IF Exists(idx) THEN SeededDocs ELSE [i \in Ids |-> NoDocFile]
  /\ lock = [p \in Paths |-> 0]
  /\ tmp = {}
  /\ call = [c \in AllCallers |-> Idle]
  /\ issued = IF Exists(idx) THEN <<1>> ELSE <<>>
  /\ ncalls = 0
  /\ pre = [idx |-> idx, docs |-> docs, last |-> NoLast]
  /\ callers = AllCallers

\* the steps of a caller that never finds a lock held
Step(c) ==
  \/ StartCreate(c) \/ StartGet(c) \/ StartUpdateStatus(c)
  \/ StartSupersede(c) \/ StartUpdate(c)
  \/ InitExists(c)
  \/ WExists(c) \/ WPlaceholder(c) \/ WLock(c)
  \/ WTemp(c) \/ WRename(c) \/ WRelease(c)
  \/ UExists(c) \/ ULock(c)
  \/ URead(c) \/ UTemp(c) \/ URename(c) \/ URelease(c)
  \/ CreateExists(c)
  \/ GetExists(c) \/ GetIndex(c) \/ GetDoc(c)
  \/ StatusExists(c) \/ StatusRead(c)
  \/ SupersedeExists(c) \/ SupersedeIndex(c) \/ SupersedeRead(c)
  \/ UpdateExists(c) \/ UpdateIndex(c)

\* the steps of a caller that finds a lock held by another caller
Contend(c) ==
  \/ WLockBusy(c) \/ WLockFail(c)
  \/ ULockBusy(c) \/ ULockFail(c)

\* the steps of a caller whose fs call is rejected
Fault(c) ==
  \/ WTempFails(c) \/ WRenameFails(c)
  \/ UTempFails(c) \/ URenameFails(c)

Next == \E c \in AllCallers : Step(c) \/ Contend(c)

NextFaults == \E c \in AllCallers : Step(c) \/ Fault(c)

NextSeq == \E c \in AllCallers : Step(c)

NextRaceFaults == \E c \in AllCallers : Step(c) \/ Contend(c) \/ Fault(c)

NextLocked ==
  \E c \in AllCallers :
    \/ StartLockedUpdate(c)
    \/ UExists(c) \/ UPlaceholder(c) \/ ULock(c) \/ ULockBusy(c) \/ ULockFail(c)
    \/ URead(c) \/ UTemp(c) \/ URename(c) \/ URelease(c)

NextList == \E c \in AllCallers : StartList(c) \/ InitExists(c) \/ ListIndex(c)

Spec == Init /\ [][Next]_vars

SpecSeq == InitSeq /\ [][NextSeq]_vars

SpecSeeded == InitSeeded /\ [][Next]_vars

\* concurrent callers on the seeded store, on a filesystem whose writes
\* can fail
SpecRaceFaults == InitSeeded /\ [][NextRaceFaults]_vars

\* concurrent calls of updateJsonFileAtomic alone
SpecLocked == InitLocked /\ [][NextLocked]_vars

\* list calls by a single caller
SpecList == InitList /\ [][NextList]_vars

\* one caller at a time on a filesystem whose writes can fail
SpecFaults == InitSeq /\ [][NextFaults]_vars

\* the same, where every caller that can take a step eventually takes one:
\* the event loop runs every continuation whose awaited operation has
\* settled, and every lock attempt settles (lockfile.lock resolves, or
\* rejects after its retry delay)
SpecFair ==
  /\ InitFair /\ [][Next]_vars
  /\ \A c \in AllCallers : WF_vars(Step(c) \/ Contend(c))

SeededStoreReached ==
  /\ idx = SeededIndex /\ docs = SeededDocs /\ issued = <<1>>
  /\ \A c \in callers : call[c].pc \in {"idle", "done"}

(***************************************************************************)
(* Vocabulary of the claims                                                *)
(***************************************************************************)
Ended(c) == call[c].pc = "done"
Succeeded(c, op) == Ended(c) /\ call[c].op = op /\ call[c].err = ""
Quiet == \A c \in AllCallers : call[c].pc \in {"idle", "done"}

\* next_sequence and items of the index; a store without index file holds
\* the index that initialize writes for it
IndexContent(file) ==
  IF file.kind = "json" THEN [next |-> file.next, items |-> file.items]
  ELSE [next |-> initialIndex.next, items |-> initialIndex.items]

HasStatus(file, id, st) ==
  file.kind = "json" /\ id \in DOMAIN file.items /\ file.items[id].status = st

\* the ids of the index that a reference names
Referenced(file, ref) ==
  IF file.kind # "json" THEN {}
  ELSE IF ref.byNo THEN {i \in DOMAIN file.items : file.items[i].adr_no = ref.no}
  ELSE {ref.id} \cap DOMAIN file.items

(***************************************************************************)
(* C1: concurrent create calls with pairwise distinct ids on the empty     *)
(* store: once all have ended, the sequence numbers returned by the        *)
(* successful ones are pairwise distinct and are exactly 1..N.             *)
(***************************************************************************)
OnlyDistinctCreates ==
  /\ ncalls = Cardinality({c \in AllCallers : call[c].op # "none"})
  /\ \A c \in AllCallers : call[c].op \in {"none", "create"}
  /\ \A c, d \in AllCallers :
       c # d /\ call[c].op = "create" /\ call[d].op = "create"
         => call[c].id # call[d].id

C1_ConcurrentCreatesGapless ==
  OnlyDistinctCreates /\ Quiet =>
    LET ok == {c \in AllCallers : Succeeded(c, "create")}
    IN {call[c].out.adr_no : c \in ok} = 1..Cardinality(ok)

(***************************************************************************)
(* C2: in every state of the index, every items[id].sequence_number is an  *)
(* integer below next_sequence, the sequence numbers of distinct ids       *)
(* differ, and no step decreases next_sequence.                            *)
(***************************************************************************)
IndexSequencesOk(file) ==
  file.kind = "json" =>
    /\ IsInteger(file.next)
    /\ \A i \in DOMAIN file.items :
         /\ IsInteger(file.items[i].adr_no)
         /\ file.items[i].adr_no < file.next
         /\ \A j \in DOMAIN file.items :
              i # j => file.items[i].adr_no # file.items[j].adr_no

C2_SequenceInvariant ==
  [][/\ IndexSequencesOk(idx')
     /\ IndexContent(idx').next >= IndexContent(idx).next]_vars

(***************************************************************************)
(* C3 as claimed: the sequence numbers of the successful creates are       *)
(* strictly increasing in the order in which the calls return.             *)
(***************************************************************************)
C3_CompletionOrder ==
  \A i, j \in 1..Len(issued) : i < j => issued[i] < issued[j]

(***************************************************************************)
(* C3 as amended: sequence numbers follow the creates' locked index        *)
(* updates, not the returns.  A create that holds the index lock and finds *)
(* next_sequence = n writes n for its id and n + 1 as next_sequence, and   *)
(* when it returns it returns the number it wrote.                         *)
(***************************************************************************)
C3_AllocationOrder ==
  [][\A c \in AllCallers :
       /\ call[c].op = "create" /\ call[c].pc = "u_rename"
            /\ call'[c].pc = "u_release"
            /\ idx.kind = "json" /\ IsInteger(idx.next)
          => /\ lock["index"] = c
             /\ idx'.next = idx.next + 1
             /\ idx'.items[call[c].id].adr_no = idx.next
             /\ call'[c].mem.adr_no = idx.next
       /\ call[c].op = "create" /\ call[c].pc = "w_release"
            /\ call'[c].pc = "done" /\ call'[c].err = ""
          => call'[c].out.adr_no = call[c].mem.adr_no]_vars

\* a create that was given the larger number has returned first
C3_Witness ==
  /\ Quiet
  /\ issued = <<2, 1>>
  /\ \A c \in AllCallers : Succeeded(c, "create")

(***************************************************************************)
(* C4: on the empty store, with one call at a time, the k-th successful    *)
(* create returns sequence number k and status PROPOSED with no            *)
(* superseded_by; a successful supersede returns SUPERSEDED with the       *)
(* referenced record's sequence number as superseded_by; an update of the  *)
(* title of a SUPERSEDED record fails with CONFLICT.                       *)
(***************************************************************************)
Code(c) == handleError(call[c].err)

C4_SequentialScenario ==
  \A c \in callers :
    /\ Succeeded(c, "create") =>
         /\ call[c].out.adr_no = Len(issued)
         /\ call[c].out.status = "PROPOSED"
         /\ idx.items[call[c].id].adr_no = Len(issued)
         /\ idx.items[call[c].id].status = "PROPOSED"
         /\ idx.items[call[c].id].superseded_by = NoRef
    /\ Succeeded(c, "supersede") =>
         /\ call[c].out.status = "SUPERSEDED"
         /\ \E r \in Referenced(pre.idx, call[c].ref) :
              call[c].out.superseded_by = pre.idx.items[r].adr_no
    /\ Ended(c) /\ call[c].op = "update" /\ DOMAIN call[c].patch = {"title"}
         /\ HasStatus(pre.idx, call[c].id, "SUPERSEDED")
       => Code(c) = "E_CONFLICT"

\* create(a), create(b), supersede(a, b) have been made and the update of
\* a's title has ended with CONFLICT
C4_Witness ==
  /\ Ended(1) /\ call[1].op = "update" /\ call[1].id = "a"
  /\ DOMAIN call[1].patch = {"title"} /\ Code(1) = "E_CONFLICT"
  /\ issued = <<1, 2>>
  /\ idx.items["a"].adr_no = 1 /\ idx.items["b"].adr_no = 2
  /\ idx.items["a"].status = "SUPERSEDED" /\ idx.items["a"].superseded_by = 2

(***************************************************************************)
(* C5: updateStatus with new_status SUPERSEDED fails with INVALID and      *)
(* leaves the index and the documents as they were; no record becomes      *)
(* SUPERSEDED through an updateStatus call.                                *)
(***************************************************************************)
StoreUntouched ==
  /\ IndexContent(idx) = IndexContent(pre.idx)
  /\ docs = pre.docs

C5_NoSupersededByUpdateStatus ==
  \A c \in callers :
    /\ Ended(c) /\ call[c].op = "updateStatus" /\ call[c].status = "SUPERSEDED"
       => Code(c) = "E_INVALID" /\ StoreUntouched
    /\ call[c].op = "updateStatus" /\ call[c].pc # "idle"
       => \A i \in Ids : HasStatus(idx, i, "SUPERSEDED")
                           => HasStatus(pre.idx, i, "SUPERSEDED")

\* updateStatus(id, SUPERSEDED) has ended on a record that exists and is
\* not SUPERSEDED
C5_Witness ==
  /\ Ended(1) /\ call[1].op = "updateStatus" /\ call[1].status = "SUPERSEDED"
  /\ Exists(docs[call[1].id])
  /\ HasStatus(idx, call[1].id, "ACCEPTED")

(***************************************************************************)
(* C6: once a record is SUPERSEDED, updateStatus with a valid status and   *)
(* supersede with a valid reference on it fail with CONFLICT and leave its *)
(* status and superseded_by as they were.                                  *)
(***************************************************************************)
ValidReference(c) ==
  \E r \in Referenced(pre.idx, call[c].ref) : r # call[c].id

C6_SupersededRejectsChange ==
  \A c \in callers :
    /\ Ended(c)
    /\ HasStatus(pre.idx, call[c].id, "SUPERSEDED")
    /\ \/ call[c].op = "updateStatus" /\ call[c].status \in validStatuses
       \/ call[c].op = "supersede" /\ ValidReference(c)
    => /\ Code(c) = "E_CONFLICT"
       /\ idx.items[call[c].id].status = "SUPERSEDED"
       /\ idx.items[call[c].id].superseded_by
            = pre.idx.items[call[c].id].superseded_by

(***************************************************************************)
(* C7: under every interleaving of calls, a record whose index status is   *)
(* SUPERSEDED keeps that status in every later state.                      *)
(***************************************************************************)
C7_SupersededIsTerminal ==
  [][\A i \in Ids : HasStatus(idx, i, "SUPERSEDED")
                      => HasStatus(idx', i, "SUPERSEDED")]_vars

(***************************************************************************)
(* C8: supersede with a reference that resolves to the record itself, by   *)
(* its id or by its own sequence number, fails with INVALID and changes    *)
(* neither the index nor the documents.                                    *)
(***************************************************************************)
SelfReference(c) == call[c].id \in Referenced(pre.idx, call[c].ref)

C8_SelfSupersedeInvalid ==
  \A c \in callers :
    Ended(c) /\ call[c].op = "supersede" /\ SelfReference(c)
      => Code(c) = "E_INVALID" /\ idx = pre.idx /\ docs = pre.docs

\* a supersede naming the record by its own sequence number has ended
C8_Witness ==
  /\ Ended(1) /\ call[1].op = "supersede" /\ SelfReference(1)
  /\ call[1].ref.byNo
  /\ Code(1) = "E_INVALID"

(***************************************************************************)
(* C9: supersede fails with NOT_FOUND and changes nothing when the id has  *)
(* no record or the reference resolves to no index entry.                  *)
(***************************************************************************)
C9_SupersedeNotFound ==
  \A c \in callers :
    /\ Ended(c) /\ call[c].op = "supersede"
    /\ \/ ~Exists(pre.docs[call[c].id])
       \/ Referenced(pre.idx, call[c].ref) = {}
    => Code(c) = "E_NOT_FOUND" /\ StoreUntouched

\* a supersede of an existing record with a sequence number that no entry
\* has, has ended
C9_Witness ==
  /\ Ended(1) /\ call[1].op = "supersede"
  /\ Exists(pre.docs[call[1].id])
  /\ call[1].ref.byNo /\ Referenced(pre.idx, call[1].ref) = {}
  /\ Code(1) = "E_NOT_FOUND"

(***************************************************************************)
(* C10: a successful supersede leaves the record's index entry with status *)
(* SUPERSEDED and superseded_by equal to the referenced entry's sequence   *)
(* number, every other entry and next_sequence as they were; the resulting *)
(* index depends on the referenced entry only, not on whether it was named *)
(* by id or by sequence number.                                            *)
(***************************************************************************)
SupersededIndex(file, id, r) ==
  [file EXCEPT !.items[id].status = "SUPERSEDED",
               !.items[id].superseded_by = file.items[r].adr_no]

C10_SupersedeResult ==
  \A c \in callers :
    Succeeded(c, "supersede") =>
      \E r \in Referenced(pre.idx, call[c].ref) :
        /\ r # call[c].id
        /\ idx = SupersededIndex(pre.idx, call[c].id, r)
        /\ \A i \in DOMAIN docs : i # call[c].id => docs[i] = pre.docs[i]
        /\ docs[call[c].id].status = "SUPERSEDED"

\* a supersede naming the other record by its sequence number has succeeded
C10_Witness ==
  /\ Succeeded(1, "supersede") /\ call[1].ref.byNo
  /\ call[1].id = "a" /\ HasStatus(idx, "a", "SUPERSEDED")
  /\ idx.items["a"].superseded_by = idx.items["b"].adr_no

(***************************************************************************)
(* C11: once the index records SUPERSEDED for an id, no step of an update  *)
(* call on that id changes the record's title in the index or rewrites its *)
(* document, whatever the interleaving of update with supersede.           *)
(***************************************************************************)
C11_SupersededImmutable ==
  [][\A c \in AllCallers :
       /\ call[c].op = "update" /\ call'[c] # call[c]
       /\ HasStatus(idx, call[c].id, "SUPERSEDED")
       => /\ docs'[call[c].id] = docs[call[c].id]
          /\ idx'.kind = "json" /\ call[c].id \in DOMAIN idx'.items
          /\ idx'.items[call[c].id].title = idx.items[call[c].id].title]_vars

(***************************************************************************)
(* C12: update with a patch that names a field outside the allow-list      *)
(* fails with INVALID and changes neither the index nor any document, also *)
(* when the patch names allowed fields as well.                            *)
(***************************************************************************)
C12_UpdateAllowList ==
  \A c \in callers :
    Ended(c) /\ call[c].op = "update" /\ DOMAIN call[c].patch \ allowedFields # {}
      => Code(c) = "E_INVALID" /\ StoreUntouched

\* an update of an existing record that is not SUPERSEDED, with a patch
\* naming an allowed and a disallowed field, has ended
C12_Witness ==
  /\ Ended(1) /\ call[1].op = "update"
  /\ DOMAIN call[1].patch \ allowedFields # {}
  /\ DOMAIN call[1].patch \cap allowedFields # {}
  /\ Exists(docs[call[1].id])
  /\ HasStatus(idx, call[1].id, "PROPOSED")

(***************************************************************************)
(* C13: get(id) reproduces every field of the record that create or update *)
(* wrote to the document: title, the free text sections, the bullet lists, *)
(* consequences.positive and .negative, cost.one_off and .ongoing.         *)
(***************************************************************************)
C13_RoundTrip ==
  \A c \in callers :
    Succeeded(c, "get") =>
      LET written == docs[call[c].id]
      IN /\ call[c].out.title = written.title
         /\ call[c].out.context = written.context
         /\ call[c].out.assumptions = written.assumptions
         /\ call[c].out.consequences = written.consequences
         /\ call[c].out.cost = written.cost

(***************************************************************************)
(* C14: create with an id whose document exists fails with ALREADY_EXISTS  *)
(* (E_EXISTS), leaves next_sequence and the index items as they were and   *)
(* leaves every document, the existing one included, unchanged.            *)
(***************************************************************************)
C14_CreateExisting ==
  \A c \in callers :
    Ended(c) /\ call[c].op = "create" /\ Exists(pre.docs[call[c].id])
      => /\ Code(c) = "E_EXISTS"
         /\ idx = pre.idx
         /\ docs = pre.docs

\* a second create of an id has ended, after another record was created
C14_Witness ==
  /\ Ended(1) /\ call[1].op = "create" /\ call[1].id = "a"
  /\ Code(1) = "E_EXISTS"
  /\ issued = <<1, 2>> /\ idx.next = 3
  /\ Exists(docs["a"]) /\ Exists(docs["b"])

(***************************************************************************)
(* C15: ids are unique and immutable.  Once a create of an id has          *)
(* succeeded, no other create of that id succeeds, and the sequence number *)
(* and the date that the index holds for the id never change, under any    *)
(* interleaving of concurrent creates of the same id.                      *)
(***************************************************************************)
C15_UniqueImmutableIds ==
  [][\A c \in AllCallers :
       Succeeded(c, "create") /\ idx.kind = "json" /\ call[c].id \in DOMAIN idx.items
       => /\ idx'.kind = "json" /\ call[c].id \in DOMAIN idx'.items
          /\ idx'.items[call[c].id].adr_no = idx.items[call[c].id].adr_no
          /\ idx'.items[call[c].id].date = idx.items[call[c].id].date
          /\ \A d \in AllCallers \ {c} :
               ~(/\ call'[d].pc = "done" /\ call'[d].op = "create"
                 /\ call'[d].err = "" /\ call'[d].id = call[c].id)]_vars

(***************************************************************************)
(* C16: when every call that was started has returned successfully, the    *)
(* header of every record's document holds the id, the sequence number and *)
(* the status of the record's index entry, whatever the interleaving of    *)
(* the calls was.  (Each caller has made at most one call, so that the     *)
(* calls of the run are the ones the callers show.)                        *)
(***************************************************************************)
AllCallsSucceeded ==
  /\ Quiet
  /\ ncalls = Cardinality({c \in AllCallers : call[c].op # "none"})
  /\ \A c \in AllCallers : call[c].err = ""

HeaderMatchesIndex(i) ==
  /\ docs[i].kind = "doc"
  /\ docs[i].id = idx.items[i].id
  /\ docs[i].aidl_no = idx.items[i].adr_no
  /\ docs[i].status = idx.items[i].status

C16_DocumentMatchesIndex ==
  AllCallsSucceeded /\ idx.kind = "json" =>
    \A i \in DOMAIN idx.items : Exists(docs[i]) => HeaderMatchesIndex(i)

(***************************************************************************)
(* C17: no torn reads.  A step that reads the index or a document without  *)
(* holding its lock (get, the checks of supersede and update, the document *)
(* reads of updateStatus and supersede) never finds the zero-byte or '{}'  *)
(* placeholder of a write in progress.                                     *)
(***************************************************************************)
Placeholder(file) == file.kind \in {"empty", "object"}

C17_NoTornRead ==
  [][\A c \in AllCallers :
       call'[c] # call[c] =>
         /\ call[c].pc \in {"g_index", "x_index", "p_index"} => ~Placeholder(idx)
         /\ call[c].pc \in {"g_doc", "s_read", "x_read"}
              => ~Placeholder(docs[call[c].id])]_vars

(***************************************************************************)
(* C18: no operation blocks indefinitely.  Every call that has started     *)
(* eventually ends, so every writeFileAtomic and updateJsonFileAtomic in   *)
(* it returns or throws; a lock attempt that finds the lock held is        *)
(* repeated at most `retries` times, and the attempt after the last        *)
(* repetition ends the call with CONFLICT.                                 *)
(***************************************************************************)
WaitsForLock(c) ==
  /\ call[c].pc \in {"w_lock", "u_lock"}
  /\ lock[IF call[c].pc = "w_lock" THEN call[c].wpath ELSE "index"] # 0

C18_BoundedLockWait ==
  /\ \A c \in AllCallers : (call[c].pc \notin {"idle", "done"}) ~> Ended(c)
  /\ [][\A c \in AllCallers :
          WaitsForLock(c) /\ call'[c] # call[c] =>
            IF call[c].tries < retries
            THEN call'[c] = [call[c] EXCEPT !.tries = @ + 1]
            ELSE /\ call[c].tries = retries
                 /\ call'[c].pc = "done" /\ call'[c].err = "E_CONFLICT"]_vars

\* a create, which has no CONFLICT of its own, has ended with CONFLICT
\* while the other caller holds the lock it asked for
C18_Witness ==
  \E c \in AllCallers :
    /\ Ended(c) /\ call[c].op = "create" /\ call[c].err = "E_CONFLICT"
    /\ \E p \in Paths : lock[p] \in AllCallers \ {c}

(***************************************************************************)
(* C19: every failure that an operation raises carries an error kind of    *)
(* the stable set (E_NOT_FOUND, E_EXISTS, E_INVALID, E_CONFLICT, E_IO),    *)
(* filesystem failures during a write and failures raised inside a locked  *)
(* index update included.                                                  *)
(***************************************************************************)
C19_StableErrorKinds ==
  \A c \in AllCallers :
    Ended(c) /\ call[c].err # "" => call[c].err \in ErrorCodes

(***************************************************************************)
(* C20: no partial mutation on rejection.  A create, updateStatus,         *)
(* supersede or update that ends with INVALID, CONFLICT (lock exhaustion   *)
(* included) or NOT_FOUND has not replaced the index: it never leaves the  *)
(* index changed and the document unchanged.                               *)
(***************************************************************************)
Rejections == {"E_INVALID", "E_CONFLICT", "E_NOT_FOUND"}

C20_NoPartialMutation ==
  \A c \in AllCallers :
    /\ Ended(c) /\ call[c].op \in {"create", "updateStatus", "supersede", "update"}
    /\ Code(c) \in Rejections
    => ~call[c].mutated

(***************************************************************************)
(* C21: records are never deleted.  While a caller shows a create of id    *)
(* that has returned success, the index holds an entry for id and the      *)
(* document of id exists, under any interleaving of the other caller's     *)
(* operations.                                                             *)
(***************************************************************************)
C21_RecordsNeverDeleted ==
  \A c \in AllCallers :
    Succeeded(c, "create") =>
      /\ idx.kind = "json" /\ call[c].id \in DOMAIN idx.items
      /\ Exists(docs[call[c].id])

(***************************************************************************)
(* C22: pagination of list.  For T matching entries and page size S, page  *)
(* p with 1 <= p <= ceil(T/S) holds exactly min(S, T-(p-1)*S) entries,     *)
(* the pages 1..ceil(T/S) one after the other are the filtered entries in  *)
(* date-descending order, has_next is true exactly when p < ceil(T/S) and  *)
(* has_prev exactly when p > 1.                                            *)
(***************************************************************************)
\* the least n with n * S >= T
PagesOf(T, S) == CHOOSE n \in 0..T : n * S >= T /\ \A m \in 0..(n - 1) : m * S < T

\* the entries that match the filters
Matching(index, params) ==
  {index.items[i] : i \in {j \in DOMAIN index.items :
                             MatchesFilters(index.items[j], params)}}

IsDateDescending(items) ==
  \A j, k \in 1..Len(items) : j < k => items[j].date >= items[k].date

\* the items of the pages 1..n that list returns, one after the other
RECURSIVE PagesInOrder(_, _, _)
PagesInOrder(index, params, n) ==
  IF n = 0 THEN <<>>
  ELSE PagesInOrder(index, params, n - 1)
         \o List(index, [params EXCEPT !.page = n]).items

C22_Pagination ==
  \A c \in callers :
    Succeeded(c, "list") =>
      LET params == call[c].params
          out == call[c].out
          T == Cardinality(Matching(idx, params))
          S == params.page_size
          p == params.page
          all == PagesInOrder(idx, params, PagesOf(T, S))
      IN /\ out.total_items = T
         /\ p <= PagesOf(T, S) =>
              /\ Len(out.items) = (IF S < T - (p - 1) * S THEN S ELSE T - (p - 1) * S)
              /\ out.items = SubSeq(all, (p - 1) * S + 1, (p - 1) * S + Len(out.items))
              /\ {all[k] : k \in 1..Len(all)} = Matching(idx, params)
              /\ Len(all) = T
              /\ IsDateDescending(all)
              /\ out.has_next = (p < PagesOf(T, S))
              /\ out.has_prev = (p > 1)

\* the third and last page of five matching entries, two to a page, holds
\* one entry and has no next page
C22_Witness ==
  /\ Succeeded(1, "list")
  /\ call[1].out.total_items = 5 /\ call[1].params.page_size = 2
  /\ call[1].params.page = 3
  /\ Len(call[1].out.items) = 1
  /\ ~call[1].out.has_next /\ call[1].out.has_prev

(***************************************************************************)
(* C23: idempotent read.  A get(id) that follows a get(id) of the same     *)
(* caller, no other call between them, ends as the first did, with the     *)
(* same error or the same result, and every get leaves the index and the   *)
(* documents as they were when it started.                                 *)
(***************************************************************************)
RepeatedGet(c) ==
  /\ Ended(c) /\ call[c].op = "get"
  /\ pre.last.op = "get" /\ pre.last.id = call[c].id

C23_IdempotentRead ==
  \A c \in callers :
    /\ RepeatedGet(c) => call[c].err = pre.last.err /\ call[c].out = pre.last.out
    /\ Ended(c) /\ call[c].op = "get" => StoreUntouched

\* the second of two gets of a SUPERSEDED record has returned the record
C23_Witness ==
  /\ RepeatedGet(1) /\ Succeeded(1, "get")
  /\ call[1].out.status = "SUPERSEDED" /\ call[1].out.superseded_by # NoRef
  /\ pre.last.err = ""

(***************************************************************************)
(* C24: for a record whose status is one of PROPOSED, ACCEPTED, REJECTED,  *)
(* FINISHED, FAILED and a target status of that set, the current one       *)
(* included, updateStatus succeeds and leaves the index as it was except   *)
(* for the status of that record, which is the target.                     *)
(***************************************************************************)
C24_StatusesMutuallyReachable ==
  \A c \in callers :
    /\ Ended(c) /\ call[c].op = "updateStatus" /\ call[c].status \in validStatuses
    /\ Exists(pre.docs[call[c].id])
    /\ \E s \in validStatuses : HasStatus(pre.idx, call[c].id, s)
    => /\ call[c].err = ""
       /\ idx = [pre.idx EXCEPT !.items[call[c].id].status = call[c].status]

\* a FINISHED record has been set back to PROPOSED
C24_Witness ==
  /\ Succeeded(1, "updateStatus") /\ call[1].status = "PROPOSED"
  /\ HasStatus(pre.idx, call[1].id, "FINISHED")
  /\ HasStatus(idx, call[1].id, "PROPOSED")

(***************************************************************************)
(* C25: in every state of the index, an entry with a superseded_by has     *)
(* status SUPERSEDED, and its superseded_by is the sequence number of      *)
(* another entry of the index and not its own.                             *)
(***************************************************************************)
SupersededByOk(file, i) ==
  file.items[i].superseded_by # NoRef =>
    /\ file.items[i].status = "SUPERSEDED"
    /\ file.items[i].superseded_by # file.items[i].adr_no
    /\ \E j \in DOMAIN file.items \ {i} :
         file.items[j].adr_no = file.items[i].superseded_by

C25_SupersededByInvariant ==
  idx.kind = "json" => \A i \in DOMAIN idx.items : SupersededByOk(idx, i)

(***************************************************************************)
(* C26: every mutation of the index is made under the index lock.  A step  *)
(* that changes the content of the index path, the initial index and the   *)
(* lock placeholder included, is a step of the caller that holds the lock  *)
(* of that path; so the index does not change while a caller is between    *)
(* its locked read and its locked write, except by that caller's write.    *)
(***************************************************************************)
InLockedUpdate(c) == call[c].pc \in {"u_temp", "u_rename"}

C26_IndexWritesUnderLock ==
  [][idx' # idx =>
       /\ \E c \in AllCallers : lock["index"] = c /\ call'[c] # call[c]
       /\ \A c \in AllCallers : InLockedUpdate(c) => call'[c] # call[c]]_vars

(***************************************************************************)
(* C27: no lost update in lockedUpdate.  When concurrent calls of          *)
(* updateJsonFileAtomic on one path have all succeeded, the file existing  *)
(* or not when they started, the file holds what their callbacks give when *)
(* applied one after the other in some order, each to the result of the    *)
(* one before.  (Each caller has made one call.)                           *)
(***************************************************************************)
\* the file after the locked update of caller c's call alone, made on file
Applied(c, file) ==
  Stringify(Callback(call[c], CurrentData(file), CHOOSE d \in Dates : TRUE).data)

C27_NoLostUpdate ==
  AllCallsSucceeded /\ (\A c \in AllCallers : call[c].op = "lockedUpdate") =>
    \E c, d \in AllCallers :
      c # d /\ idx = Applied(d, Applied(c, pre.idx))

(***************************************************************************)
(* C28: the lock is released on every exit path.  A lock is held only by   *)
(* a caller that is inside writeFileAtomic or updateJsonFileAtomic on that *)
(* path, between its acquisition and its release: a call that has ended by *)
(* success, by a write failure, by lock exhaustion or by an error of the   *)
(* callback holds no lock, and a lock that nobody is about to release is   *)
(* free.                                                                   *)
(***************************************************************************)
HoldsLockOf(c, p) ==
  \/ call[c].pc \in {"w_temp", "w_rename", "w_release"} /\ call[c].wpath = p
  \/ call[c].pc \in {"u_read", "u_temp", "u_rename", "u_release"} /\ p = "index"

C28_LockReleased ==
  \A p \in Paths : lock[p] # 0 => HoldsLockOf(lock[p], p)

\* one call has ended by a write failure and the other with CONFLICT on
\* the record that the first has left SUPERSEDED, and every lock is free
C28_Witness ==
  /\ Ended(1) /\ call[1].err \in FsErrorCodes
  /\ Ended(2) /\ call[2].op = "updateStatus" /\ call[2].err = "E_CONFLICT"
  /\ call[2].status \in validStatuses
  /\ HasStatus(idx, call[2].id, "SUPERSEDED")
  /\ \A p \in Paths : lock[p] = 0

(***************************************************************************)
(* C29: when writeFileAtomic(path, content) fails, at the lock, at the     *)
(* write of the temporary file or at the rename, the caller's temporary    *)
(* file does not remain and path is as it was before the call: the same    *)
(* content if it existed, still absent if it did not.                      *)
(***************************************************************************)
FailsInWrite(c) ==
  /\ call[c].pc \in {"w_lock", "w_release"}
  /\ call'[c].pc = "done" /\ call'[c].err # ""

C29_FailedWriteLeavesPath ==
  [][\A c \in callers :
       FailsInWrite(c) =>
         /\ c \notin tmp'
         /\ IF call[c].wpath = "index" THEN idx' = pre.idx
            ELSE docs'[call[c].wpath] = pre.docs[call[c].wpath]]_vars

(***************************************************************************)
(* C30: an error thrown by the callback inside updateJsonFileAtomic        *)
(* reaches the caller unchanged and the file is left as it was read: the   *)
(* callback of updateStatus, run under the lock on an index without the id *)
(* or with the id SUPERSEDED, throws NOT_FOUND or CONFLICT, the call ends  *)
(* with that error and the index is not written.  A lock attempt on the    *)
(* index that exhausts its retries ends the call with CONFLICT.            *)
(***************************************************************************)
C30_CallbackErrorPropagates ==
  [][\A c \in AllCallers :
       call'[c] # call[c] =>
         /\ call[c].op = "updateStatus" /\ call[c].pc = "u_read" /\ idx.kind = "json"
              /\ (call[c].id \notin DOMAIN idx.items
                    \/ HasStatus(idx, call[c].id, "SUPERSEDED"))
            => /\ call'[c].pc = "u_release"
               /\ call'[c].err = (IF call[c].id \notin DOMAIN idx.items
                                  THEN "E_NOT_FOUND" ELSE "E_CONFLICT")
               /\ idx' = idx /\ lock["index"] = c
         /\ call[c].pc = "u_release" /\ call[c].err # ""
            => /\ call'[c].pc = "done" /\ call'[c].err = call[c].err
               /\ idx' = idx /\ c \notin tmp'
         /\ call[c].pc = "u_lock" /\ WaitsForLock(c) /\ call[c].tries = retries
            => call'[c].pc = "done" /\ call'[c].err = "E_CONFLICT"]_vars

\* an updateStatus of a SUPERSEDED record has ended with CONFLICT where no
\* other caller has made a call: the error is the one its callback threw
C30_Witness ==
  /\ Ended(1) /\ call[1].op = "updateStatus" /\ call[1].status \in validStatuses
  /\ call[1].err = "E_CONFLICT"
  /\ HasStatus(idx, call[1].id, "SUPERSEDED")
  /\ call[2].op = "none"
  /\ lock["index"] = 0

(***************************************************************************)
(* C31: supersede resolves the reference, checks it against the index and  *)
(* writes status and superseded_by within one hold of the index lock.      *)
(* From the index state that a supersede call has validated to the index   *)
(* state it overwrites, no step of another caller changes the index.       *)
(***************************************************************************)
ValidatedSupersede(c) ==
  /\ call[c].op = "supersede"
  /\ call[c].pc \in {"u_exists", "u_lock", "u_read", "u_temp", "u_rename"}

C31_SupersedeInOneLockHold ==
  [][\A c \in AllCallers :
       ValidatedSupersede(c) /\ call'[c] = call[c] => idx' = idx]_vars

(***************************************************************************)
(* C32: a successful update(id, patch) changes only the patched fields.    *)
(* For every allow-list field that the patch does not name, cost and       *)
(* consequences included, the record's document holds after the update     *)
(* what it held for the record before it, get(id) returns for it what it   *)
(* returned before, and the id, sequence number, status and date of the    *)
(* index entry are unchanged.                                              *)
(***************************************************************************)
FrameFields == {"title", "context", "assumptions", "consequences", "cost"}

GetUnchanged(id, f) ==
  GetResult(idx.items[id], docs[id])[f] = GetResult(pre.idx.items[id], pre.docs[id])[f]

C33_NoLostDocumentUpdate ==
  \A c, d \in AllCallers :
    /\ AllCallsSucceeded
    /\ Succeeded(c, "updateStatus") /\ Succeeded(d, "update")
    /\ call[c].id = call[d].id
    => LET doc == docs[call[c].id]
       IN /\ doc.status = call[c].status
          /\ doc.display.s = call[c].status
          /\ \A f \in DOMAIN call[d].patch : doc[f] = call[d].patch[f]

====
